---------------------------- MODULE Spec2Model ----------------------------
(***************************************************************************)
(* Model of the recommendation engine of src/recommend_songs.py            *)
(* (Kerkliedjie-aanbevelings): preprocess_songs, the st.cache_resource     *)
(* caches of get_song_embeddings and initialize_model, the ranking of      *)
(* get_recommendations_fast and the script run of main.                   *)
(*                                                                         *)
(* Text is a sequence of one-character strings, so that " ".join and       *)
(* str.strip are computed as Python computes them.  A similarity score is  *)
(* an integer number of ten-thousandths (cosine 0.4996 is 4996), so that   *)
(* round(score, 3) is a real conversion.                                   *)
(***************************************************************************)
EXTENDS Integers, Sequences, FiniteSets, TLC

VARIABLES
    pc,               \* position of the driver of the specification in use
    file,             \* combined_songs.json on disk
    data_cache,       \* st.cache_data entry of load_songs_data()
    model_cache,      \* st.cache_resource entry of initialize_model()
    model_loads,      \* constructions of SentenceTransformer so far
    emb_cache,        \* st.cache_resource entries of get_song_embeddings
    corpus_encodes,   \* per song_texts: batch _model.encode calls so far
    query_encodes,    \* _model.encode([sermon_text]) calls so far
    calls,            \* operations performed so far (bounded by MaxCalls)
    op,               \* the last operation performed
    sermon_text,      \* arguments and locals of the last call of
    songs,            \*   get_recommendations_fast, and its return value
    model,
    top_k,
    song_texts,
    song_names,
    similarities,
    top_indices,
    recommendations,
    model_calls,      \* calls of initialize_model so far
    model_ret,        \* what the last call of initialize_model returned
    clicked,          \* last script run: whether the button was clicked
    text_area,        \* last script run: the text in the text area
    outcome,          \* last script run: the message main showed
    shown,            \* last script run: the recommendations main displayed
    button_shown,     \* a script run has rendered the recommendation button
    tpc,              \* per thread: position inside the cached call
    tkey,             \* per thread: the song_texts it asked for
    tret,             \* per thread: the value the cached call returned
    lock,             \* threads holding the compute lock of their song_texts
    computing,        \* threads inside _model.encode(song_texts)
    encode_raises,    \* per song_texts: batch encodes that raised so far
    played,           \* Played.txt on disk
    unique_filenames  \* what the last clean_played_file returned

vars == << pc, file, data_cache, model_cache, model_loads, emb_cache,
           corpus_encodes, query_encodes, calls, op, sermon_text, songs, model,
           top_k, song_texts, song_names, similarities, top_indices,
           recommendations, model_calls, model_ret, clicked, text_area, outcome,
           shown, button_shown, tpc, tkey, tret, lock, computing, encode_raises,
           played, unique_filenames >>

loadVars == << file, data_cache, model_cache, model_loads, model_calls, model_ret >>
uiVars == << clicked, text_area, outcome, shown, button_shown >>
embVars == << emb_cache, corpus_encodes, query_encodes >>
callVars == << sermon_text, songs, model, top_k, song_texts, song_names,
               similarities, top_indices, recommendations >>
threadVars == << tpc, tkey, tret, lock, computing, encode_raises >>
playedVars == << played, unique_filenames >>

-----------------------------------------------------------------------------
(* Bounds *)

MaxSongs == 2
MaxCalls == 4
MaxThreads == 2
MaxNegTopK == 2
MaxLines == 2
MaxPieces == 2

(* Program constants *)

DefaultTopK == 5

-----------------------------------------------------------------------------
(* Python values *)

None == "None"
NoKey == "absent"            \* the dict has no such key
Unknown == "Unknown"         \* the default of song.get('filename', 'Unknown')
TheModel == "SentenceTransformer"
NotCached == "NotCached"

\* combined_songs.json: absent (or unreadable), or holding a list of songs
FileMissing == [exists |-> FALSE, songs |-> << >>]
FileWith(all) == [exists |-> TRUE, songs |-> all]

\* the st.cache_data entry of load_songs_data
DataNotCached == [cached |-> FALSE, songs |-> << >>]
DataCached(all) == [cached |-> TRUE, songs |-> all]

Min(a, b) == IF a < b THEN a ELSE b
Max(a, b) == IF a > b THEN a ELSE b

\* " ".join(lines)
RECURSIVE Join(_)
Join(lines) ==
    IF lines = << >> THEN << >>
    ELSE IF Len(lines) = 1 THEN lines[1]
    ELSE lines[1] \o << " " >> \o Join(Tail(lines))

RECURSIVE LStrip(_)
LStrip(s) == IF s # << >> /\ Head(s) = " " THEN LStrip(Tail(s)) ELSE s

RECURSIVE RStrip(_)
RStrip(s) ==
    IF s # << >> /\ s[Len(s)] = " " THEN RStrip(SubSeq(s, 1, Len(s) - 1)) ELSE s

\* str.strip()
Strip(s) == RStrip(LStrip(s))

\* seq[::-1]
Reverse(s) == [i \in 1..Len(s) |-> s[Len(s) + 1 - i]]

\* seq[:k], for any integer k
SliceTo(s, k) ==
    IF k >= 0 THEN SubSeq(s, 1, Min(k, Len(s)))
    ELSE SubSeq(s, 1, Max(Len(s) + k, 0))

\* round(x, 3) on ten-thousandths: to the nearest thousandth, ties to even
Round3(x) ==
    LET q == x \div 10
        r == x % 10
    IN  IF r < 5 THEN q
        ELSE IF r > 5 THEN q + 1
        ELSE IF q % 2 = 0 THEN q ELSE q + 1

-----------------------------------------------------------------------------
(* Song records *)

FileNames == {"Lied1", Unknown, NoKey}
Lyrics == { << >>, << << >>, << >> >>, << <<"a">> >>, << <<"b">> >>,
            << <<"a">>, <<"b">> >> }
Records == [filename : FileNames, lyrics : Lyrics]

SeqsUpTo(S, n) == UNION {[1..m -> S] : m \in 0..n}
Corpora == SeqsUpTo(Records, MaxSongs)

\* song.get('filename', default)
GetFilename(song, default) ==
    IF song.filename = NoKey THEN default ELSE song.filename

\* preprocess_songs(songs), the loop taken one song at a time
RECURSIVE preprocess_from(_, _, _, _)
preprocess_from(all, i, texts, names) ==
    IF i > Len(all) THEN [texts |-> texts, names |-> names]
    ELSE LET lyrics_text == Join(all[i].lyrics)
         IN  IF Strip(lyrics_text) # << >>
             THEN preprocess_from(all, i + 1, Append(texts, lyrics_text),
                                  Append(names, GetFilename(all[i], Unknown)))
             ELSE preprocess_from(all, i + 1, texts, names)

\* a preprocess_songs that appends the filename of every song, outside the
\* "if lyrics_text.strip()"
preprocess_songs_every_name(all) ==
    [texts |-> preprocess_from(all, 1, << >>, << >>).texts,
     names |-> [i \in 1..Len(all) |-> GetFilename(all[i], Unknown)]]

preprocess_songs(all) == preprocess_from(all, 1, << >>, << >>)

-----------------------------------------------------------------------------
(* The embedding provider and the cache of get_song_embeddings *)

\* _model.encode(texts): one opaque, deterministic vector per text
Encode(texts) == [i \in 1..Len(texts) |-> << "emb", texts[i] >>]

\* the tuple (None, None); is_none stands for "embeddings is None"
NonePair == [is_none |-> TRUE, embeddings |-> << >>, texts |-> << >>]

\* get_song_embeddings(song_texts, _model), the undecorated body
get_song_embeddings(texts, m) ==
    IF m = None \/ texts = << >>
    THEN NonePair
    ELSE [is_none |-> FALSE, embeddings |-> Encode(texts), texts |-> texts]

\* whether that body calls _model.encode
BodyEncodes(texts, m) == ~(m = None \/ texts = << >>)

\* a get_song_embeddings that is not memoized
CacheHitNever(cache, texts) == FALSE

\* @st.cache_resource on get_song_embeddings: the entry is keyed by song_texts
\* alone (the leading underscore keeps _model out of the key)
CacheHit(cache, texts) == texts \in DOMAIN cache

\* what the decorated get_song_embeddings returns when the cache is `cache`
CachedEmbeddings(cache, texts, m) ==
    IF CacheHit(cache, texts) THEN cache[texts] ELSE get_song_embeddings(texts, m)

\* the cache after that call: a miss stores what the body returned
CacheAfter(cache, texts, m) ==
    IF CacheHit(cache, texts) THEN cache
    ELSE (texts :> get_song_embeddings(texts, m)) @@ cache

CountOf(counts, texts) == IF texts \in DOMAIN counts THEN counts[texts] ELSE 0

\* the batch-encode counts after that call: a miss runs the body
EncodesAfter(cache, counts, texts, m) ==
    IF ~CacheHit(cache, texts) /\ BodyEncodes(texts, m)
    THEN (texts :> CountOf(counts, texts) + 1) @@ counts
    ELSE counts

-----------------------------------------------------------------------------
(* Ranking *)

Scores == {-2500, 4996, 5004}

\* cosine_similarity(sermon_embedding, song_embeddings)[0]: the provider is a
\* black box, so any scores, equal for equal embeddings
Similarities(embeddings) ==
    {s \in [1..Len(embeddings) -> Scores] :
        \A i, j \in 1..Len(embeddings) :
            embeddings[i] = embeddings[j] => s[i] = s[j]}

\* np.argsort(similarities): a permutation of the 0-based indices (here
\* 1-based) that sorts ascending; its default sort is not stable, so equal
\* scores come in any order
ArgSort(sims) ==
    {p \in [1..Len(sims) -> 1..Len(sims)] :
        /\ \A i, j \in 1..Len(sims) : i # j => p[i] # p[j]
        /\ \A i, j \in 1..Len(sims) : i < j => sims[p[i]] <= sims[p[j]]}

\* the ranking without [::-1]: ascending
TopIndicesAscending(sorted, k) == SliceTo(sorted, k)

\* the ranking without [:top_k]: every song
TopIndicesUncut(sorted, k) == Reverse(sorted)

\* np.argsort(similarities)[::-1][:top_k], given argsort's result
TopIndices(sorted, k) == SliceTo(Reverse(sorted), k)

\* next((s for s in songs if s.get('filename') == song_name), None), as the
\* index of the song found, 0 for None
FindSong(all, song_name) ==
    LET found == {i \in 1..Len(all) : GetFilename(all[i], None) = song_name}
    IN  IF found = {} THEN 0 ELSE CHOOSE i \in found : \A j \in found : i <= j

\* the loop over top_indices
RECURSIVE BuildRecommendations(_, _, _, _)
BuildRecommendations(all, names, sims, indices) ==
    IF indices = << >> THEN << >>
    ELSE LET idx == Head(indices)
             song_name == names[idx]
             song_data == FindSong(all, song_name)
             rest == BuildRecommendations(all, names, sims, Tail(indices))
         IN  IF song_data # 0
             THEN << [filename |-> song_name,
                      lyrics |-> all[song_data].lyrics,
                      similarity_score |-> Round3(sims[idx])] >> \o rest
             ELSE rest

NoRanking ==
    /\ similarities' = << >>
    /\ top_indices' = << >>
    /\ recommendations' = << >>

\* get_recommendations_fast(sermon_text, songs, _model, top_k), called when the
\* embedding cache is `cache` and the batch-encode counts are `counts`
get_recommendations_fast(q, all, m, k, cache, counts) ==
    LET pre == preprocess_songs(all)
    IN  /\ sermon_text' = q
        /\ songs' = all
        /\ model' = m
        /\ top_k' = k
        /\ IF m = None \/ all = << >>
           THEN /\ song_texts' = << >>
                /\ song_names' = << >>
                /\ NoRanking
                /\ emb_cache' = cache
                /\ corpus_encodes' = counts
                /\ UNCHANGED query_encodes
           ELSE /\ song_texts' = pre.texts
                /\ song_names' = pre.names
                /\ IF pre.texts = << >>
                   THEN /\ NoRanking
                        /\ emb_cache' = cache
                        /\ corpus_encodes' = counts
                        /\ UNCHANGED query_encodes
                   ELSE LET cached == CachedEmbeddings(cache, pre.texts, m)
                            song_embeddings == cached.embeddings
                        IN  /\ emb_cache' = CacheAfter(cache, pre.texts, m)
                            /\ corpus_encodes' =
                                   EncodesAfter(cache, counts, pre.texts, m)
                            /\ IF cached.is_none
                               THEN NoRanking /\ UNCHANGED query_encodes
                               ELSE /\ query_encodes' = query_encodes + 1
                                    /\ \E sims \in Similarities(song_embeddings) :
                                       \E sorted \in ArgSort(sims) :
                                          /\ similarities' = sims
                                          /\ top_indices' = TopIndices(sorted, k)
                                          /\ recommendations' =
                                                BuildRecommendations(all, pre.names, sims,
                                                                     TopIndices(sorted, k))

-----------------------------------------------------------------------------
(* The ranking specification: one call of get_recommendations_fast on every *)
(* corpus of up to MaxSongs records, every top_k and both model values.     *)

TopKs == (0 - MaxNegTopK)..(MaxSongs + 1)
Sermon == << "a" >>

NoCall ==
    /\ sermon_text = << >>
    /\ song_texts = << >>
    /\ song_names = << >>
    /\ similarities = << >>
    /\ top_indices = << >>
    /\ recommendations = << >>

ColdProcess ==
    /\ data_cache = DataNotCached
    /\ model_cache = NotCached
    /\ model_loads = 0
    /\ model_calls = 0
    /\ model_ret = "none"
    /\ clicked = FALSE
    /\ text_area = << >>
    /\ shown = << >>
    /\ emb_cache = << >>
    /\ corpus_encodes = << >>
    /\ query_encodes = 0
    /\ calls = 0
    /\ op = "none"
    /\ outcome = "none"
    /\ button_shown = FALSE

\* no Played.txt, and clean_played_file not called
NoPlayed ==
    /\ played = [exists |-> FALSE, content |-> << >>]
    /\ unique_filenames = {}

NoThreads ==
    /\ tpc = << >>
    /\ tkey = << >>
    /\ tret = << >>
    /\ lock = {}
    /\ computing = {}
    /\ encode_raises = << >>

RankInit ==
    /\ pc = "ready"
    /\ file = FileMissing
    /\ ColdProcess
    /\ NoPlayed
    /\ NoCall
    /\ NoThreads
    /\ songs \in Corpora
    /\ model \in {None, TheModel}
    /\ top_k \in TopKs

RankCall ==
    /\ pc = "ready"
    /\ pc' = "done"
    /\ get_recommendations_fast(Sermon, songs, model, top_k, emb_cache, corpus_encodes)
    /\ calls' = calls + 1
    /\ op' = "get_recommendations_fast"
    /\ UNCHANGED << playedVars, loadVars, uiVars, threadVars >>

RankNext == RankCall

RankSpec == RankInit /\ [][RankNext]_vars

-----------------------------------------------------------------------------
(* The process: the caches of one Streamlit server process, script runs of  *)
(* main, and direct calls of initialize_model and get_recommendations_fast. *)

Song(f, l) == [filename |-> f, lyrics |-> l]
BlankLyrics == << << >>, << >> >>

\* corpus files: empty list; no embeddable text; one song; the same text under
\* another filename; two songs; a song behind a blank namesake
ProcCorpora ==
    { << >>,
      << Song("Lied1", BlankLyrics) >>,
      << Song("Lied1", << <<"a">> >>) >>,
      << Song(Unknown, << <<"a">> >>) >>,
      << Song("Lied1", << <<"a">> >>), Song(Unknown, << <<"b">> >>) >>,
      << Song("Lied1", << >>), Song("Lied1", << <<"b">> >>) >> }

Queries == { << >>, << " " >>, << " ", "a" >> }

\* initialize_model caches only a model that loaded
ModelCachedIfLoaded == model_cache \notin {NotCached, None}

\* @st.cache_resource on initialize_model: it takes no argument, so there is
\* one entry, and the None returned by the except branch is an entry too
ModelCached == model_cache # NotCached

\* what initialize_model() returns when SentenceTransformer(...) would load
\* (ok) or raise (~ok)
ModelReturned(ok) ==
    IF ModelCached THEN model_cache ELSE IF ok THEN TheModel ELSE None

\* the effect of one call of the decorated initialize_model
initialize_model(ok) ==
    /\ model_calls' = model_calls + 1
    /\ model_ret' = ModelReturned(ok)
    /\ model_cache' = ModelReturned(ok)
    /\ model_loads' = IF ModelCached THEN model_loads ELSE model_loads + 1

\* what load_songs_data() returns: @st.cache_data keeps the first result for
\* the one file_path; a missing or unreadable file gives []
SongsLoaded ==
    IF data_cache.cached THEN data_cache.songs
    ELSE IF ~file.exists THEN << >> ELSE file.songs

\* "not sermon_text" alone
BlankQueryUnstripped(text) == text = << >>

\* not sermon_text or not sermon_text.strip()
BlankQuery(text) == text = << >> \/ Strip(text) = << >>

\* an empty result reported as a success
RecommendationOutcomeSilent(recs) == "Success"

\* main's report of the recommendations: st.error("Geen aanbevelings gevind
\* ...") when there are none, else the song cards and st.success
RecommendationOutcome(recs) ==
    IF recs = << >> THEN "NoRecommendationsError" ELSE "Success"

ErrorOutcomes == {"LoadError", "NoRecommendationsError"}

\* a call of initialize_model() from anywhere
InitializeModelCall ==
    /\ pc = "serving"
    /\ calls < MaxCalls
    /\ \E ok \in BOOLEAN : initialize_model(ok)
    /\ calls' = calls + 1
    /\ op' = "initialize_model"
    /\ UNCHANGED << playedVars, pc, file, data_cache, embVars, callVars, uiVars, threadVars >>

\* one script run of main: click says whether it is the rerun of a click on
\* the button, which a run must have rendered before; text is the text area
MainRun ==
    /\ pc = "serving"
    /\ calls < MaxCalls
    /\ \E click \in BOOLEAN, text \in Queries, ok \in BOOLEAN :
        LET songs_data == SongsLoaded
            m == ModelReturned(ok)
            texts == preprocess_songs(songs_data).texts
            preloaded == CacheAfter(emb_cache, texts, m)
            preload_counts == EncodesAfter(emb_cache, corpus_encodes, texts, m)
        IN  /\ click => button_shown
            /\ clicked' = click
            /\ text_area' = text
            /\ data_cache' = DataCached(songs_data)
            /\ initialize_model(ok)
            /\ IF songs_data = << >> \/ m = None
               THEN /\ outcome' = "LoadError"
                    /\ shown' = << >>
                    /\ UNCHANGED << button_shown, embVars, callVars >>
               ELSE /\ button_shown' = TRUE
                    /\ IF ~click
                       THEN /\ outcome' = "Ready"
                            /\ shown' = << >>
                            /\ emb_cache' = preloaded
                            /\ corpus_encodes' = preload_counts
                            /\ UNCHANGED << query_encodes, callVars >>
                       ELSE IF BlankQuery(text)
                       THEN /\ outcome' = "EmptyQueryWarning"
                            /\ shown' = << >>
                            /\ emb_cache' = preloaded
                            /\ corpus_encodes' = preload_counts
                            /\ UNCHANGED << query_encodes, callVars >>
                       ELSE /\ get_recommendations_fast(Strip(text), songs_data, m,
                                    DefaultTopK, preloaded, preload_counts)
                            /\ outcome' = RecommendationOutcome(recommendations')
                            /\ shown' = recommendations'
    /\ calls' = calls + 1
    /\ op' = "main"
    /\ UNCHANGED << playedVars, pc, file, threadVars >>

\* a call of get_recommendations_fast from anywhere, with the model that
\* initialize_model returned or with None
DirectCall ==
    /\ pc = "serving"
    /\ calls < MaxCalls
    /\ \E all \in ProcCorpora, m \in {None, model_cache} :
          /\ m \in {None, TheModel}
          /\ get_recommendations_fast(Sermon, all, m, DefaultTopK,
                                      emb_cache, corpus_encodes)
    /\ calls' = calls + 1
    /\ op' = "get_recommendations_fast"
    /\ UNCHANGED << playedVars, pc, loadVars, uiVars, threadVars >>

Init ==
    /\ pc = "serving"
    /\ file \in {FileMissing} \cup {FileWith(all) : all \in ProcCorpora}
    /\ ColdProcess
    /\ NoPlayed
    /\ NoCall
    /\ NoThreads
    /\ songs = << >>
    /\ model = None
    /\ top_k = DefaultTopK

Next == InitializeModelCall \/ MainRun \/ DirectCall

Spec == Init /\ [][Next]_vars

-----------------------------------------------------------------------------
(* Concurrent sessions: Streamlit runs each session's script in a thread of *)
(* its own, and the threads share the st.cache_resource entries.  A call of *)
(* the decorated get_song_embeddings reads the entry of its song_texts; on  *)
(* a miss it takes the compute lock of that song_texts, reads the entry     *)
(* again, and only on a second miss runs the body and stores what it        *)
(* returned; an exception of the body leaves the with-block without a store.*)

Threads == 1..MaxThreads
ThreadKeys == {preprocess_songs(all).texts : all \in ProcCorpora}

NoReturn == [how |-> "none", value |-> NonePair]
Return(how, value) == [how |-> how, value |-> value]

\* no mutual exclusion between the misses of one song_texts
CanAcquireAlways(t) == TRUE

\* the compute lock is per song_texts: free when no thread asking for the
\* same song_texts holds it
CanAcquire(t) == \A u \in lock : tkey[u] # tkey[t]

\* thread t calls get_song_embeddings(key, model): the first read of the cache
ThreadCall(t) ==
    /\ pc = "threads"
    /\ calls < MaxCalls
    /\ tpc[t] = "idle"
    /\ \E key \in ThreadKeys :
          /\ tkey' = [tkey EXCEPT ![t] = key]
          /\ IF CacheHit(emb_cache, key)
             THEN /\ tpc' = [tpc EXCEPT ![t] = "done"]
                  /\ tret' = [tret EXCEPT ![t] = Return("hit", emb_cache[key])]
             ELSE /\ tpc' = [tpc EXCEPT ![t] = "miss"]
                  /\ tret' = [tret EXCEPT ![t] = NoReturn]
    /\ calls' = calls + 1
    /\ op' = "get_song_embeddings"
    /\ UNCHANGED << playedVars, pc, loadVars, embVars, callVars, uiVars, lock, computing,
                    encode_raises >>

\* after a miss: take the compute lock and read the cache again; on a second
\* miss enter the body, which returns (None, None) at once for no texts and
\* otherwise calls _model.encode
ThreadLock(t) ==
    /\ pc = "threads"
    /\ tpc[t] = "miss"
    /\ CanAcquire(t)
    /\ IF CacheHit(emb_cache, tkey[t])
       THEN /\ tpc' = [tpc EXCEPT ![t] = "done"]
            /\ tret' = [tret EXCEPT ![t] = Return("waited", emb_cache[tkey[t]])]
            /\ UNCHANGED << lock, computing, emb_cache, corpus_encodes >>
       ELSE IF BodyEncodes(tkey[t], TheModel)
       THEN /\ tpc' = [tpc EXCEPT ![t] = "encoding"]
            /\ lock' = lock \cup {t}
            /\ computing' = computing \cup {t}
            /\ corpus_encodes' =
                  (tkey[t] :> CountOf(corpus_encodes, tkey[t]) + 1) @@ corpus_encodes
            /\ UNCHANGED << tret, emb_cache >>
       ELSE /\ tpc' = [tpc EXCEPT ![t] = "done"]
            /\ tret' = [tret EXCEPT ![t] =
                           Return("computed", get_song_embeddings(tkey[t], TheModel))]
            /\ emb_cache' =
                  (tkey[t] :> get_song_embeddings(tkey[t], TheModel)) @@ emb_cache
            /\ UNCHANGED << lock, computing, corpus_encodes >>
    /\ UNCHANGED << playedVars, pc, loadVars, query_encodes, callVars, uiVars, calls, op, tkey,
                    encode_raises >>

\* _model.encode returns: the body's value is stored and the lock released
ThreadEncodeReturns(t) ==
    /\ pc = "threads"
    /\ tpc[t] = "encoding"
    /\ tpc' = [tpc EXCEPT ![t] = "done"]
    /\ tret' = [tret EXCEPT ![t] =
                   Return("computed", get_song_embeddings(tkey[t], TheModel))]
    /\ emb_cache' = (tkey[t] :> get_song_embeddings(tkey[t], TheModel)) @@ emb_cache
    /\ lock' = lock \ {t}
    /\ computing' = computing \ {t}
    /\ UNCHANGED << playedVars, pc, loadVars, corpus_encodes, query_encodes, callVars, uiVars,
                    calls, op, tkey, encode_raises >>

\* _model.encode raises: the exception leaves the call, nothing is stored
ThreadEncodeRaises(t) ==
    /\ pc = "threads"
    /\ tpc[t] = "encoding"
    /\ tpc' = [tpc EXCEPT ![t] = "done"]
    /\ tret' = [tret EXCEPT ![t] = Return("raised", NonePair)]
    /\ lock' = lock \ {t}
    /\ computing' = computing \ {t}
    /\ encode_raises' =
          (tkey[t] :> CountOf(encode_raises, tkey[t]) + 1) @@ encode_raises
    /\ UNCHANGED << playedVars, pc, loadVars, embVars, callVars, uiVars, calls, op, tkey >>

\* the session's script run is over; the thread serves the next run
ThreadDone(t) ==
    /\ pc = "threads"
    /\ tpc[t] = "done"
    /\ tpc' = [tpc EXCEPT ![t] = "idle"]
    /\ UNCHANGED << playedVars, pc, loadVars, embVars, callVars, uiVars, calls, op, tkey, tret,
                    lock, computing, encode_raises >>

ConcInit ==
    /\ pc = "threads"
    /\ file = FileMissing
    /\ ColdProcess
    /\ NoPlayed
    /\ NoCall
    /\ songs = << >>
    /\ model = TheModel
    /\ top_k = DefaultTopK
    /\ tpc = [t \in Threads |-> "idle"]
    /\ tkey = [t \in Threads |-> << >>]
    /\ tret = [t \in Threads |-> NoReturn]
    /\ lock = {}
    /\ computing = {}
    /\ encode_raises = << >>

ConcNext ==
    \E t \in Threads :
        \/ ThreadCall(t)
        \/ ThreadLock(t)
        \/ ThreadEncodeReturns(t)
        \/ ThreadEncodeRaises(t)
        \/ ThreadDone(t)

ConcSpec == ConcInit /\ [][ConcNext]_vars

-----------------------------------------------------------------------------
(* The played list: runs of clean_played_file of src/keep_only_relevant.py  *)
(* on a Played.txt of up to MaxLines lines.  The file is its text, a        *)
(* sequence of characters with "\n" between lines.                          *)

NL == "\n"
Whitespace == {" ", NL}

\* the code points of the characters in use, which order Python's strings
Ord(c) ==
    CASE c = NL -> 10   [] c = " " -> 32  [] c = "." -> 46
      [] c = "a" -> 97  [] c = "d" -> 100 [] c = "f" -> 102
      [] c = "j" -> 106 [] c = "n" -> 110 [] c = "o" -> 111
      [] c = "p" -> 112 [] c = "s" -> 115 [] c = "t" -> 116
      [] c = "x" -> 120

\* a < b on Python strings
StrLess(a, b) ==
    \E k \in 0..Min(Len(a), Len(b)) :
        /\ \A i \in 1..k : a[i] = b[i]
        /\ k < Len(b)
        /\ (k = Len(a) \/ Ord(a[k + 1]) < Ord(b[k + 1]))

Range(s) == {s[i] : i \in 1..Len(s)}

\* f.readlines(): the lines of the text, each with its "\n" when it has one
RECURSIVE readlines(_)
readlines(text) ==
    IF text = << >> THEN << >>
    ELSE LET ends == {i \in 1..Len(text) : text[i] = NL}
         IN  IF ends = {} THEN << text >>
             ELSE LET n == CHOOSE i \in ends : \A j \in ends : i <= j
                  IN  << SubSeq(text, 1, n) >>
                          \o readlines(SubSeq(text, n + 1, Len(text)))

\* line.strip(): all leading and trailing whitespace, the "\n" included
RECURSIVE strip(_)
strip(s) ==
    IF s # << >> /\ Head(s) \in Whitespace THEN strip(Tail(s))
    ELSE IF s # << >> /\ s[Len(s)] \in Whitespace
         THEN strip(SubSeq(s, 1, Len(s) - 1))
         ELSE s

\* ['.pdf', '.txt', '.json']
Extensions ==
    << << ".", "p", "d", "f" >>, << ".", "t", "x", "t" >>,
       << ".", "j", "s", "o", "n" >> >>

\* filename.endswith(ext)
EndsWith(filename, ext) ==
    /\ Len(filename) >= Len(ext)
    /\ SubSeq(filename, Len(filename) - Len(ext) + 1, Len(filename)) = ext

\* for ext in [...]: if filename.endswith(ext): filename = filename[:-len(ext)];
\* break -- the first extension that matches is cut off, once
RemoveExtension(filename) ==
    LET found == {e \in 1..Len(Extensions) : EndsWith(filename, Extensions[e])}
    IN  IF found = {} THEN filename
        ELSE LET e == CHOOSE x \in found : \A y \in found : x <= y
             IN  SubSeq(filename, 1, Len(filename) - Len(Extensions[e]))

\* the loop over the lines: cleaned_lines, whose elements are the set
\* unique_filenames
RECURSIVE cleaned_from(_, _, _)
cleaned_from(lines, i, cleaned_lines) ==
    IF i > Len(lines) THEN cleaned_lines
    ELSE LET filename == strip(lines[i])
         IN  IF filename # << >>
                 /\ RemoveExtension(filename) \notin Range(cleaned_lines)
             THEN cleaned_from(lines, i + 1,
                               Append(cleaned_lines, RemoveExtension(filename)))
             ELSE cleaned_from(lines, i + 1, cleaned_lines)

\* sorted(cleaned_lines), of strings that are distinct
Sorted(names) ==
    [i \in 1..Len(names) |->
        CHOOSE x \in Range(names) :
            Cardinality({y \in Range(names) : StrLess(y, x)}) = i - 1]

\* the text written by f.write(filename + '\n') for each name
RECURSIVE Written(_)
Written(names) ==
    IF names = << >> THEN << >>
    ELSE names[1] \o << NL >> \o Written(Tail(names))

PlayedMissing == [exists |-> FALSE, content |-> << >>]
PlayedWith(text) == [exists |-> TRUE, content |-> text]

\* a run of clean_played_file() that completes
clean_played_file ==
    /\ pc = "cleaning"
    /\ calls < MaxCalls
    /\ IF ~played.exists
       THEN /\ unique_filenames' = {}
            /\ UNCHANGED played
       ELSE LET cleaned_lines == cleaned_from(readlines(played.content), 1, << >>)
            IN  /\ played' = PlayedWith(Written(Sorted(cleaned_lines)))
                /\ unique_filenames' = Range(cleaned_lines)
    /\ calls' = calls + 1
    /\ op' = "clean_played_file"
    /\ UNCHANGED << pc, loadVars, embVars, callVars, uiVars, threadVars >>

\* a run whose open() or readlines() raises: the except branch returns set()
\* and the file is as it was
clean_played_file_raises ==
    /\ pc = "cleaning"
    /\ calls < MaxCalls
    /\ played.exists
    /\ unique_filenames' = {}
    /\ calls' = calls + 1
    /\ op' = "clean_played_file raised"
    /\ UNCHANGED << played, pc, loadVars, embVars, callVars, uiVars, threadVars >>

RECURSIVE Concat(_)
Concat(pieces) ==
    IF pieces = << >> THEN << >> ELSE Head(pieces) \o Concat(Tail(pieces))

\* the lines of a played list: a song name, blanks and extensions
PlayedPieces == {<< "a" >>, << " " >>} \cup Range(Extensions)
PlayedLines == {Concat(pieces) : pieces \in SeqsUpTo(PlayedPieces, MaxPieces)}

\* the text of a file with these lines, the last one with or without "\n"
FileText(lines, newline) ==
    IF lines = << >> THEN << >>
    ELSE IF newline THEN Written(lines)
    ELSE SubSeq(Written(lines), 1, Len(Written(lines)) - 1)

PlayedFiles ==
    {PlayedMissing} \cup
    {PlayedWith(FileText(lines, newline)) :
        lines \in SeqsUpTo(PlayedLines, MaxLines), newline \in BOOLEAN}

CleanInit ==
    /\ pc = "cleaning"
    /\ file = FileMissing
    /\ ColdProcess
    /\ NoCall
    /\ NoThreads
    /\ songs = << >>
    /\ model = None
    /\ top_k = DefaultTopK
    /\ played \in PlayedFiles
    /\ unique_filenames = {}

CleanNext == clean_played_file \/ clean_played_file_raises

CleanSpec == CleanInit /\ [][CleanNext]_vars

-----------------------------------------------------------------------------
(* Vocabulary of the claims about one call *)

Returned == pc = "done" /\ op = "get_recommendations_fast"

\* a text with no character other than the space
IsBlank(text) == \A i \in 1..Len(text) : text[i] = " "

\* the corpus indices of the records whose joined lyrics are not blank, in
\* corpus order: entry i is the record behind prepared index i
SurvivingIdx(all) ==
    SelectSeq([i \in 1..Len(all) |-> i],
              LAMBDA i : ~IsBlank(Join(all[i].lyrics)))

\* the ranked indices that produced a recommendation, in order
KeptIdx ==
    SelectSeq(top_indices, LAMBDA idx : FindSong(songs, song_names[idx]) # 0)

\* every record has a filename and no two share one
DistinctFilenames(all) ==
    \A i, j \in 1..Len(all) :
        /\ all[i].filename # NoKey
        /\ i # j => all[i].filename # all[j].filename

Ranked == {top_indices[a] : a \in 1..Len(top_indices)}

ScoresDescend ==
    /\ Len(recommendations) = Len(KeptIdx)
    /\ \A a \in 1..Len(recommendations) :
          recommendations[a].similarity_score = Round3(similarities[KeptIdx[a]])
    /\ \A a, b \in 1..Len(KeptIdx) :
          a < b => /\ similarities[KeptIdx[a]] >= similarities[KeptIdx[b]]
                   /\ recommendations[a].similarity_score
                        >= recommendations[b].similarity_score
    /\ \A i \in (1..Len(similarities)) \ Ranked :
          \A r \in Ranked : similarities[i] <= similarities[r]

\* C2 (as stated): the recommendations of one call descend by score, and of
\* two prepared songs with equal scores the one with the lower index comes
\* first and is the one kept when top_k cuts between them (stated for the
\* top_k >= 0 of the query interface and for corpora whose filenames are
\* distinct, where a recommendation names the record that was ranked).
C2_TiesByLowerIndex ==
    (Returned /\ top_k >= 0 /\ DistinctFilenames(songs)) =>
        /\ ScoresDescend
        /\ \A a, b \in 1..Len(top_indices) :
              (a < b /\ similarities[top_indices[a]] = similarities[top_indices[b]])
                  => top_indices[a] < top_indices[b]
        /\ \A i \in (1..Len(similarities)) \ Ranked :
              \A r \in Ranked : similarities[i] = similarities[r] => r < i

\* C2 (amended): the recommendations of one call descend by score (each
\* carries its score rounded to 3 decimals, and no song left out scores
\* higher than a song ranked); songs with equal scores come in either order.
C2_ScoresDescend == Returned => ScoresDescend

\* C2 witness: two songs tie, both are recommended, the higher index first.
C2_Witness ==
    /\ Returned
    /\ Len(recommendations) = 2
    /\ similarities[1] = similarities[2]
    /\ top_indices = << 2, 1 >>
    /\ recommendations[1].filename # recommendations[2].filename

\* C3: every recommendation carries the filename and the lyrics of the corpus
\* record whose text was embedded at its ranked index.
C3_CarriesRankedRecord ==
    Returned =>
        \A a \in 1..Len(KeptIdx) :
            LET record == songs[SurvivingIdx(songs)[KeptIdx[a]]]
            IN  /\ a <= Len(recommendations)
                /\ recommendations[a].filename = record.filename
                /\ recommendations[a].lyrics = record.lyrics

\* C4: a record whose joined lyrics are blank is in neither the prepared
\* texts and names nor, with its blank lyrics, in the recommendations.
C4_NoBlankRecord ==
    Returned =>
        /\ LET pre == preprocess_songs(songs)
           IN  /\ Len(pre.texts) = Len(SurvivingIdx(songs))
               /\ Len(pre.names) = Len(SurvivingIdx(songs))
               /\ \A i \in 1..Len(pre.texts) :
                     pre.texts[i] = Join(songs[SurvivingIdx(songs)[i]].lyrics)
        /\ \A a \in 1..Len(recommendations) :
              ~IsBlank(Join(recommendations[a].lyrics))

\* C5: for every top_k <= 0 the call returns the empty sequence.
C5_NonPositiveTopKEmpty ==
    (Returned /\ top_k <= 0) => recommendations = << >>

\* C6: for every top_k >= 0 the call returns at most min(top_k, number of
\* records whose joined lyrics are not blank) recommendations.
C6_AtMostTopK ==
    (Returned /\ top_k >= 0) =>
        Len(recommendations) <= Min(top_k, Len(SurvivingIdx(songs)))

\* C6 witness: top_k cuts a corpus of two embeddable songs down to one.
C6_Witness ==
    /\ Returned
    /\ top_k = 1
    /\ Len(SurvivingIdx(songs)) = 2
    /\ Len(recommendations) = 1

\* the position before line j of a text that joins `lines` with one
\* separator character between consecutive lines
RECURSIVE Offset(_, _)
Offset(lines, j) ==
    IF j <= 1 THEN 0 ELSE Offset(lines, j - 1) + Len(lines[j - 1]) + 1

\* text is the lines in order with exactly one space between consecutive lines
IsSpaceJoined(text, lines) ==
    IF lines = << >> THEN text = << >>
    ELSE /\ Len(text) = Offset(lines, Len(lines) + 1) - 1
         /\ \A j \in 1..Len(lines) :
               \A c \in 1..Len(lines[j]) : text[Offset(lines, j) + c] = lines[j][c]
         /\ \A j \in 2..Len(lines) : text[Offset(lines, j)] = " "

\* C11: the names and texts prepared by preprocess_songs have equal length;
\* entry i of each comes from the same record, the i-th record in corpus
\* order whose joined lyrics are not blank, and texts[i] is that record's
\* lyrics joined with single spaces; the call leaves the corpus as it was.
C11_PreparedAligned ==
    /\ []((Returned /\ model # None) =>
            /\ Len(song_names) = Len(song_texts)
            /\ Len(song_texts) = Len(SurvivingIdx(songs))
            /\ \A i \in 1..Len(song_texts) :
                  LET record == songs[SurvivingIdx(songs)[i]]
                  IN  /\ IsSpaceJoined(song_texts[i], record.lyrics)
                      /\ song_names[i] = GetFilename(record, Unknown))
    /\ [][songs' = songs]_vars

\* C11 witness: of two records the first is blank and dropped, the second
\* has two lyric lines and is prepared under its own filename.
C11_Witness ==
    /\ Returned
    /\ model # None
    /\ Len(songs) = 2
    /\ IsBlank(Join(songs[1].lyrics))
    /\ Len(songs[2].lyrics) = 2
    /\ songs[1].filename # songs[2].filename
    /\ song_names = << songs[2].filename >>
    /\ song_texts = << << "a", " ", "b" >> >>

-----------------------------------------------------------------------------
(* Claims about the played list *)

\* C12: clean_played_file is idempotent: a run on the file that the run
\* before it wrote leaves the text of the file unchanged and returns the
\* same set of filenames.
C12_CleanIdempotent ==
    [][(op = "clean_played_file" /\ op' = "clean_played_file" /\ played.exists)
          => /\ played'.content = played.content
             /\ unique_filenames' = unique_filenames]_vars

-----------------------------------------------------------------------------
(* Claims about the process *)

Keys == DOMAIN emb_cache \cup DOMAIN corpus_encodes

\* C1: over any sequence of requests in one process the corpus batch-encode
\* runs at most once per song_texts; a request against cached song_texts is
\* a hit: it leaves the entry as stored and calls no batch-encode for it.
C1_EncodeOncePerCorpus ==
    /\ [](\A key \in Keys :
            /\ CountOf(corpus_encodes, key) <= 1
            /\ (key \in DOMAIN emb_cache /\ ~emb_cache[key].is_none) =>
                  /\ CountOf(corpus_encodes, key) = 1
                  /\ emb_cache[key].embeddings = Encode(key))
    /\ [][\A key \in DOMAIN emb_cache :
            /\ key \in DOMAIN emb_cache'
            /\ emb_cache'[key] = emb_cache[key]
            /\ CountOf(corpus_encodes', key) = CountOf(corpus_encodes, key)]_vars

\* C1 witness: two requests were ranked against the same song_texts and the
\* only batch-encode ever made is the one of the first.
C1_Witness ==
    /\ query_encodes >= 2
    /\ recommendations # << >>
    /\ DOMAIN corpus_encodes = {song_texts}
    /\ corpus_encodes[song_texts] = 1

ClickRun == calls' = calls + 1 /\ op' = "main" /\ clicked'

\* C7: a click with a query that is blank gets the empty-query warning, and
\* that run makes no provider call (corpus batch-encode or query encode),
\* does not call get_recommendations_fast and displays no recommendation.
C7_BlankQueryNoWork ==
    [][(ClickRun /\ IsBlank(text_area')) =>
          /\ outcome' = "EmptyQueryWarning"
          /\ shown' = << >>
          /\ corpus_encodes' = corpus_encodes
          /\ query_encodes' = query_encodes
          /\ UNCHANGED callVars]_vars

\* C7 witness: a click with a query of one space was answered by the warning.
C7_Witness ==
    /\ op = "main"
    /\ clicked
    /\ text_area = << " " >>
    /\ outcome = "EmptyQueryWarning"

LoadFailed == model_cache = None \/ data_cache.songs = << >>

\* a request with a non-blank query against a loaded corpus that has records
\* and no embeddable text
NothingToEmbed ==
    /\ op = "main"
    /\ clicked
    /\ ~IsBlank(text_area)
    /\ data_cache.songs # << >>
    /\ SurvivingIdx(data_cache.songs) = << >>

\* C8 (as stated): a failed request yields no recommendation and an explicit
\* failure reason, and a request against a loaded corpus with no embeddable
\* text yields no recommendation and no error reason.
C8_EmptyCorpusNoReason ==
    /\ (op = "main" /\ LoadFailed) => (outcome = "LoadError" /\ shown = << >>)
    /\ NothingToEmbed => (shown = << >> /\ outcome \notin ErrorOutcomes)

\* C8 (amended): a failed request (model unavailable, corpus unavailable or a
\* corpus file with no record) yields no recommendation and the load error; a
\* request against a loaded corpus with records and no embeddable text
\* yields no recommendation and an error too, the other one ("Geen
\* aanbevelings gevind"); no error comes with a recommendation.
C8_BothReportErrors ==
    /\ (op = "main" /\ LoadFailed) => (outcome = "LoadError" /\ shown = << >>)
    /\ NothingToEmbed => (shown = << >> /\ outcome = "NoRecommendationsError")
    /\ (op = "main" /\ outcome \in ErrorOutcomes) => shown = << >>
    /\ (op = "main" /\ outcome = "Success") => shown # << >>

\* C8 witness: a click against a corpus of one record with blank lyrics.
C8_Witness ==
    /\ NothingToEmbed
    /\ outcome = "NoRecommendationsError"
    /\ model_cache = TheModel

\* C10: over any sequence of initialize_model calls the model is constructed
\* at most once; every call returns the cached instance, which never
\* changes; a failed construction is cached as None, reported by main as the
\* load error and not retried.
C10_ModelInitializedOnce ==
    /\ [](/\ model_loads <= 1
          /\ model_calls >= 1 =>
                /\ model_loads = 1
                /\ model_cache \in {TheModel, None}
                /\ model_ret = model_cache
          /\ (op = "main" /\ model_cache = None) => outcome = "LoadError")
    /\ [][model_cache # NotCached =>
             (model_cache' = model_cache /\ model_loads' = model_loads)]_vars

\* C10 witness: the construction failed once, initialize_model was called
\* again, and main reported the failure.
C10_Witness ==
    /\ model_calls >= 2
    /\ model_loads = 1
    /\ model_cache = None
    /\ outcome = "LoadError"

-----------------------------------------------------------------------------
(* Claims about concurrent sessions *)

=============================================================================
